---- MODULE Spec2Model ----
(***************************************************************************)
(* A model of fiobank.py: the request / cache / throttle layer of Account *)
(* (Account._request, Account._get_cached_response_json), the facade       *)
(* operations Account.last and Query.latest, and the response parsers      *)
(* Account._parse_transactions and Account._get_account_info.              *)
(*                                                                         *)
(* Python values are written as follows.                                   *)
(*   - an id argument is the text of its literal: "None", "0", "7";        *)
(*   - a date argument is <<kind, head, tail>>: its Python type, the first *)
(*     10 characters of its text and the rest;                             *)
(*   - a decoded JSON document is [nodes, txs]: nodes maps each path of    *)
(*     keys to the kind of value found there, txs is the list found under  *)
(*     accountStatement.transactionList.transaction;                       *)
(*   - a URL is <<action, token, p1, p2>>, the template of the action      *)
(*     filled with the token and the parameters.                           *)
(***************************************************************************)
EXTENDS Integers, Sequences, FiniteSets, TLC

VARIABLES
    now,        \* time.time(), in seconds
    token,      \* token[a]: self.token of Account instance a
    cache,      \* Account.cache, the class-level dict: URL -> decoded document
    inst_ts,    \* instance attributes last_request_timestamp: a -> time, for the
                \* instances that have one
    pc,         \* pc[t]: where thread t is
    frame,      \* frame[t]: the locals of the call thread t is in
    stored,     \* history: stored[url] = when cache[url] was written
    fetched,    \* history: fetched[url] = the token and the response body of
                \* the network call that wrote cache[url]
    last_ok,    \* history: the account and URL of the latest stored response
    ncalls,     \* history: the number of calls started
    p_data,     \* the parser's input document
    p_pc,       \* the parser's position
    p_next,     \* the index of the next raw entry the generator reads
    p_out,      \* the records the generator has yielded
    p_err,      \* the exception the generator raised, or "none"
    i_data,     \* the document _get_account_info was called with
    i_pc,       \* "off", "returned" or "raised"
    i_out,      \* the dict _get_account_info returned
    i_err       \* the exception _get_account_info raised, or "none"

vars == <<now, token, cache, inst_ts, pc, frame, stored, fetched, last_ok, ncalls,
          p_data, p_pc, p_next, p_out, p_err, i_data, i_pc, i_out, i_err>>
infoVars == <<i_data, i_pc, i_out, i_err>>
parseVars == <<p_data, p_pc, p_next, p_out, p_err, infoVars>>

---------------------------------------------------------------------------
(* Bounds of the model *)

MaxCalls == 2
MaxSharedCalls == 3
MaxElapsed == 31
MaxEntries == 2

(* Program constants *)

ThrottleWindow == 30
Conflict == 409
ClassLastRequestTimestamp == 0
StartTime == 1000

---------------------------------------------------------------------------
(* The universe of the model *)

Threads == {1, 2}
FacadeAccounts == {"a1"}
Accounts == {"a1", "a2"}
Tokens == {"tokA", "tokB"}
TickSteps == {29, 30, 31}
Statuses == {200, 409, 500}

IdArgs == {"None", "0", "7"}
NoDate == <<"None", "", "">>
DateArgs == {NoDate,
             <<"str", "", "">>,
             <<"str", "2020-01-01", "">>,
             <<"datetime", "2020-01-01", "T00:00:00">>,
             <<"str", "garbage", "">>}
IsoDates == {"2020-01-01"}

---------------------------------------------------------------------------
(* Decoded JSON documents *)

Root == <<>>
PStatement == <<"accountStatement">>
PList == <<"accountStatement", "transactionList">>
PTransaction == <<"accountStatement", "transactionList", "transaction">>

PyNone == [nodes |-> (Root :> "null"), txs |-> <<>>]
EmptyObject == [nodes |-> (Root :> "dict"), txs |-> <<>>]
NoStatement == [nodes |-> (Root :> "dict" @@ <<"error">> :> "dict"), txs |-> <<>>]
NullList == [nodes |-> (Root :> "dict" @@ PStatement :> "dict" @@ PList :> "null"),
             txs |-> <<>>]
NoTransactionKey == [nodes |-> (Root :> "dict" @@ PStatement :> "dict"
                                @@ PList :> "dict"),
                     txs |-> <<>>]
NullTransaction == [nodes |-> (Root :> "dict" @@ PStatement :> "dict"
                               @@ PList :> "dict" @@ PTransaction :> "null"),
                    txs |-> <<>>]
Statement(entries) ==
    [nodes |-> (Root :> "dict" @@ PStatement :> "dict" @@ PList :> "dict"
                @@ PTransaction :> "list"),
     txs |-> entries]

\* bool(doc): None is false, a dict is true when it has a key
Truthy(doc) ==
    /\ doc.nodes[Root] = "dict"
    /\ \E p \in DOMAIN doc.nodes : Len(p) = 1

---------------------------------------------------------------------------
(* Raw transaction entries: the sequence of the entry's columns, each       *)
(* <<name, data>>.  Column data is <<"null">> for null and <<"obj", v>> for *)
(* {"value": v}, v being <<"null">>, <<"str", characters>> or              *)
(* <<"num", characters>>.                                                  *)

KnownEntry ==
    <<<<"column22", <<"obj", <<"str", <<"1", "0", "0">>>>>>>>,
      <<"column1", <<"obj", <<"num", <<"1", "2", ".", "5">>>>>>>>>>
LaterEntry ==
    <<<<"column22", <<"obj", <<"str", <<"1", "0", "1">>>>>>>>>>

(* response.json(): the document a body decodes to *)
Bodies == {"", "{}", "null-list", "one-tx", "two-tx"}
Json(body) ==
    CASE body = "{}" -> EmptyObject
      [] body = "null-list" -> NullList
      [] body = "one-tx" -> Statement(<<KnownEntry>>)
      [] body = "two-tx" -> Statement(<<KnownEntry, LaterEntry>>)

---------------------------------------------------------------------------
(* Arguments *)

\* bool(from_id) / bool(from_date)
TruthyId(v) == v \notin {"None", "0"}
TruthyDate(v) ==
    CASE v[1] = "None" -> FALSE
      [] v[1] = "str" -> v[2] # "" \/ v[3] # ""
      [] OTHER -> TRUE

\* coerce_date: a datetime is cut to its date, a date is itself, a string is
\* parsed from its first 10 characters; "raises" when strptime would
CoerceDate(v) ==
    IF v[1] = "datetime" THEN [err |-> "none", date |-> v[2]]
    ELSE IF v[1] = "date" THEN [err |-> "none", date |-> v[2]]
    ELSE IF v[2] \in IsoDates THEN [err |-> "none", date |-> v[2]]
    ELSE [err |-> "ValueError", date |-> ""]

\* datetime.date.today(), and the date 30 days before it
Today == <<"date", "2020-01-31", "">>
ThirtyDaysBefore(d) ==
    CASE d[2] = "2020-01-31" -> <<"date", "2020-01-01", "">>

---------------------------------------------------------------------------
(* URLs: Account.actions, formatted with the token and the parameters *)

Actions == {"periods", "by-id", "last", "set-last-id", "set-last-date"}

\* URL templates without the token
UrlWithoutToken(tok, action, p1, p2) ==
    CASE action = "periods" -> <<"periods", "", p1, p2>>
      [] action = "by-id" -> <<"by-id", "", p1, p2>>
      [] action = "last" -> <<"last", "", "", "">>
      [] action = "set-last-id" -> <<"set-last-id", "", p1, "">>
      [] action = "set-last-date" -> <<"set-last-date", "", p1, "">>

Url(tok, action, p1, p2) ==
    CASE action = "periods" -> <<"periods", tok, p1, p2>>
      [] action = "by-id" -> <<"by-id", tok, p1, p2>>
      [] action = "last" -> <<"last", tok, "", "">>
      [] action = "set-last-id" -> <<"set-last-id", tok, p1, "">>
      [] action = "set-last-date" -> <<"set-last-date", tok, p1, "">>

\* the (action, params) pairs the instances of SpecInstances call _request with
SharedRequests ==
    {<<"last", "", "">>,
     <<"set-last-id", "7", "">>}

\* the (action, params) pairs _request is called with directly
DirectRequests ==
    {<<"periods", "2020-01-01", "2020-01-01">>,
     <<"by-id", "2020", "1">>,
     <<"last", "", "">>,
     <<"set-last-id", "7", "">>,
     <<"set-last-date", "2020-01-01", "">>}

---------------------------------------------------------------------------
(* The cache check *)

\* a timestamp kept in the class: every instance reads the latest one written
LastRequestTimestampShared(a) ==
    IF DOMAIN inst_ts = {} THEN ClassLastRequestTimestamp
    ELSE CHOOSE ts \in {inst_ts[b] : b \in DOMAIN inst_ts} :
            \A b \in DOMAIN inst_ts : ts >= inst_ts[b]

\* self.last_request_timestamp: the instance attribute when the instance has
\* one, the class attribute otherwise
LastRequestTimestamp(a) ==
    IF a \in DOMAIN inst_ts THEN inst_ts[a] ELSE ClassLastRequestTimestamp

\* self.cache.get(url)
CacheGet(url) == IF url \in DOMAIN cache THEN cache[url] ELSE PyNone

\* a cache check that asks how old the entry of the URL is
GetCachedResponseJsonPerUrl(a, url) ==
    IF url \in DOMAIN stored /\ now - stored[url] < ThrottleWindow
    THEN CacheGet(url)
    ELSE PyNone

\* _get_cached_response_json(url)
GetCachedResponseJson(a, url) ==
    IF now - LastRequestTimestamp(a) < ThrottleWindow
    THEN CacheGet(url)
    ELSE PyNone

---------------------------------------------------------------------------
(* Text: a Python str is the sequence of its characters *)

IsSpace(c) == c \in {" ", "\t", "\n"}
IsDigit(c) == c \in {"0", "1", "2", "3", "4", "5", "6", "7", "8", "9"}
IsUpper(c) == c \in {"A", "B", "C", "D", "E", "F", "G", "H", "I", "J", "K", "L",
                     "M", "N", "O", "P", "Q", "R", "S", "T", "U", "V", "W", "X",
                     "Y", "Z"}

\* str.strip()
Strip(s) ==
    LET inked == {i \in 1..Len(s) : ~IsSpace(s[i])}
    IN  IF inked = {} THEN <<>>
        ELSE SubSeq(s, CHOOSE i \in inked : \A j \in inked : i <= j,
                       CHOOSE i \in inked : \A j \in inked : i >= j)

\* the end of the run of digits of s that starts at i (i - 1 when there is none)
DigitsEnd(s, i) ==
    LET ends == {j \in i..Len(s) : \A k \in i..j : IsDigit(s[k])}
    IN  IF ends = {} THEN i - 1 ELSE CHOOSE j \in ends : \A k \in ends : j >= k

\* float(s) of a str: a sign, digits and at most one point among them ("raises"
\* when it would)
IsFloatText(s) ==
    LET t == Strip(s)
        b == IF Len(t) > 0 /\ t[1] \in {"-", "+"} THEN 2 ELSE 1
        e == DigitsEnd(t, b)
        f == IF e < Len(t) /\ t[e + 1] = "." THEN DigitsEnd(t, e + 2) ELSE e
    IN  /\ f = Len(t)
        /\ \E i \in b..Len(t) : IsDigit(t[i])

\* strptime(s, '%Y-%m-%d') accepts the 10 characters s: year, month and day
\* in digits, zero-padded
IsIsoDateText(s) ==
    /\ Len(s) = 10
    /\ \A i \in {1, 2, 3, 4, 6, 7, 9, 10} : IsDigit(s[i])
    /\ s[5] = "-" /\ s[8] = "-"
    /\ <<s[6], s[7]>> \in {<<"0", "1">>, <<"0", "2">>, <<"0", "3">>, <<"0", "4">>,
                           <<"0", "5">>, <<"0", "6">>, <<"0", "7">>, <<"0", "8">>,
                           <<"0", "9">>, <<"1", "0">>, <<"1", "1">>, <<"1", "2">>}
    /\ s[9] \in {"0", "1", "2", "3"} /\ <<s[9], s[10]>> # <<"0", "0">>
    /\ s[9] = "3" => s[10] \in {"0", "1"}

\* _amount_re.match(s): an optional minus, digits, an optional fraction, one
\* space and three capitals, at the start of s
AmountMatch(s) ==
    LET b == IF Len(s) > 0 /\ s[1] = "-" THEN 2 ELSE 1
        e == DigitsEnd(s, b)
        f == IF e + 1 < Len(s) /\ s[e + 1] = "." /\ DigitsEnd(s, e + 2) >= e + 2
             THEN DigitsEnd(s, e + 2) ELSE e
    IN  /\ e >= b
        /\ f + 4 <= Len(s)
        /\ s[f + 1] = " "
        /\ \A i \in (f + 2)..(f + 4) : IsUpper(s[i])

\* s.split(' '): the pieces between the spaces
Spaces(s) == {i \in 1..Len(s) : s[i] = " "}

---------------------------------------------------------------------------
(* Values: JSON values are <<"null">>, <<"str", text>>, <<"num", text>>;   *)
(* Python values are <<"None">>, <<"str", text>>, <<"float", text>>,       *)
(* <<"date", text>>.                                                       *)

JNull == <<"null">>
PNone == <<"None">>
Ok(v) == [err |-> "none", val |-> v]
Err(e) == [err |-> e, val |-> PNone]

\* the convert functions of the schema: str, float, coerce_date
Convert(convert, v) ==
    CASE convert = "str" -> Ok(<<"str", v[2]>>)
      [] convert = "float" ->
            IF v[1] = "num" \/ IsFloatText(v[2])
            THEN Ok(<<"float", Strip(v[2])>>) ELSE Err("ValueError")
      [] convert = "date" ->
            IF v[1] = "num" THEN Err("TypeError")
            ELSE IF IsIsoDateText(SubSeq(v[2], 1, 10))
            THEN Ok(<<"date", SubSeq(v[2], 1, 10)>>) ELSE Err("ValueError")

\* sanitize_value(value, convert)
SanitizeValue(value, convert) ==
    LET v == IF value[1] = "str"
             THEN IF Strip(value[2]) = <<>> THEN PNone
                  ELSE <<"str", Strip(value[2])>>
             ELSE IF value[1] = "null" THEN PNone
             ELSE value
    IN  IF v[1] # "None" THEN Convert(convert, v) ELSE Ok(v)

\* Account.transaction_schema
TransactionSchema ==
    [column0 |-> <<"date", "date">>,
     column1 |-> <<"amount", "float">>,
     column2 |-> <<"account_number", "str">>,
     column3 |-> <<"bank_code", "str">>,
     column4 |-> <<"constant_symbol", "str">>,
     column5 |-> <<"variable_symbol", "str">>,
     column6 |-> <<"specific_symbol", "str">>,
     column7 |-> <<"user_identification", "str">>,
     column8 |-> <<"type", "str">>,
     column9 |-> <<"executor", "str">>,
     column10 |-> <<"account_name", "str">>,
     column12 |-> <<"bank_name", "str">>,
     column14 |-> <<"currency", "str">>,
     column16 |-> <<"recipient_message", "str">>,
     column17 |-> <<"instruction_id", "str">>,
     column18 |-> <<"specification", "str">>,
     column22 |-> <<"transaction_id", "str">>,
     column25 |-> <<"comment", "str">>,
     column26 |-> <<"bic", "str">>,
     column27 |-> <<"reference", "str">>]

SchemaFields == {TransactionSchema[c][1] : c \in DOMAIN TransactionSchema}
DerivedFields == {"original_amount", "original_currency", "account_number_full"}

\* str.lower() of the column names and info keys of the model
Lower(name) ==
    CASE name = "COLUMN2" -> "column2"
      [] name = "Column22" -> "column22"
      [] name = "accountId" -> "accountid"
      [] name = "bankId" -> "bankid"
      [] name = "closingBalance" -> "closingbalance"
      [] name = "yearList" -> "yearlist"
      [] OTHER -> name

\* the partial dict d with d[k] = v
Put(d, k, v) == [x \in DOMAIN d \cup {k} |-> IF x = k THEN v ELSE d[x]]

\* _parse_transactions, lines 250-255: the columns of a raw entry, a sequence
\* of <<name, data>>, from the i-th on; data is <<"null">> or <<"obj", value>>
RECURSIVE ParseColumns(_, _, _)
ParseColumns(entry, i, trans) ==
    IF i > Len(entry) THEN [err |-> "none", trans |-> trans]
    ELSE LET column_name == entry[i][1]
             column_data == entry[i][2]
         IN  IF column_data[1] = "null"
             THEN ParseColumns(entry, i + 1, trans)
             ELSE IF Lower(column_name) \notin DOMAIN TransactionSchema
             THEN [err |-> "KeyError", trans |-> trans]
             ELSE LET field == TransactionSchema[Lower(column_name)]
                      value == SanitizeValue(column_data[2], field[2])
                  IN  IF value.err # "none"
                      THEN [err |-> value.err, trans |-> trans]
                      ELSE ParseColumns(entry, i + 1,
                                        Put(trans, field[1], value.val))

\* an _add_account_number_full that asks for the account number only
AddAccountNumberFullOfNumber(obj) ==
    LET account_number == IF "account_number" \in DOMAIN obj
                          THEN obj["account_number"] ELSE PNone
    IN  Put(obj, "account_number_full",
            IF account_number[1] # "None"
            THEN <<"str", account_number[2] \o <<"/">>>>
            ELSE PNone)

\* _add_account_number_full; '{}/{}'.format joins the two texts with a slash
AddAccountNumberFull(obj) ==
    LET account_number == IF "account_number" \in DOMAIN obj
                          THEN obj["account_number"] ELSE PNone
        bank_code == IF "bank_code" \in DOMAIN obj THEN obj["bank_code"] ELSE PNone
    IN  Put(obj, "account_number_full",
            IF account_number[1] # "None" /\ bank_code[1] # "None"
            THEN <<"str", account_number[2] \o <<"/">> \o bank_code[2]>>
            ELSE PNone)

\* a parser that leaves the fields the entry did not have out of the record
SetDefaultsNone(trans) == trans

\* _parse_transactions, lines 258-259: trans.setdefault(field_name, None) for
\* every field of the schema
SetDefaults(trans) ==
    [f \in SchemaFields \cup DOMAIN trans |->
        IF f \in DOMAIN trans THEN trans[f] ELSE PNone]

\* _parse_transactions, lines 262-272: the derived fields of the record
\* trans, whose specification is the one given
Refine(trans, specification) ==
    IF specification[1] # "None" /\ AmountMatch(specification[2])
    THEN IF Cardinality(Spaces(specification[2])) # 1
         THEN [err |-> "ValueError", rec |-> <<>>]
         ELSE LET sp == CHOOSE i \in Spaces(specification[2]) : TRUE
              IN  [err |-> "none",
                   rec |-> AddAccountNumberFull(
                             Put(Put(trans, "original_amount",
                                     <<"float", SubSeq(specification[2], 1, sp - 1)>>),
                                 "original_currency",
                                 <<"str", SubSeq(specification[2], sp + 1,
                                                 Len(specification[2]))>>))]
    ELSE [err |-> "none",
          rec |-> AddAccountNumberFull(
                    Put(Put(trans, "original_amount", PNone),
                        "original_currency", PNone))]

\* trans.get('specification')
GetSpecification(trans) ==
    IF "specification" \in DOMAIN trans THEN trans["specification"] ELSE PNone

\* _parse_transactions, lines 257-272, after the columns
AfterColumns(filled) == Refine(filled, GetSpecification(filled))

\* _parse_transactions, lines 248-275, given the result of the columns' loop
EntryOf(cols) ==
    IF cols.err # "none" THEN [err |-> cols.err, rec |-> <<>>]
    ELSE AfterColumns(SetDefaults(cols.trans))

\* _parse_transactions, lines 248-275: one raw entry to one record
ParseEntry(entry) == EntryOf(ParseColumns(entry, 1, <<>>))

\* obj[key] at the path p of the document: None and a list take no str key,
\* a dict has the key or not
GetItem(doc, p, key) ==
    IF doc.nodes[p] # "dict" THEN [err |-> "TypeError", path |-> p]
    ELSE IF Append(p, key) \notin DOMAIN doc.nodes
    THEN [err |-> "KeyError", path |-> p]
    ELSE [err |-> "none", path |-> Append(p, key)]

\* data['accountStatement']['transactionList']['transaction']
LookupEntries(doc) ==
    LET a == GetItem(doc, Root, "accountStatement")
        b == IF a.err = "none" THEN GetItem(doc, a.path, "transactionList") ELSE a
        c == IF b.err = "none" THEN GetItem(doc, b.path, "transaction") ELSE b
    IN  c

\* the raw entries of the model: any of the columns, in this order, each with
\* null, {"value": null} or {"value": "x"}
RawNames == <<"Column22", "COLUMN2", "column99">>
RawData == {<<"null">>, <<"obj", JNull>>, <<"obj", <<"str", <<"x">>>>>>}

RECURSIVE EntriesFrom(_)
EntriesFrom(i) ==
    IF i > Len(RawNames) THEN {<<>>}
    ELSE LET rest == EntriesFrom(i + 1)
         IN  rest \cup {<<<<RawNames[i], d>>>> \o r : d \in RawData, r \in rest}

RawEntries == EntriesFrom(1)

RECURSIVE SeqsUpTo(_, _)
SeqsUpTo(S, n) ==
    IF n = 0 THEN {<<>>}
    ELSE LET shorter == SeqsUpTo(S, n - 1)
         IN  shorter \cup {Append(q, x) : q \in shorter, x \in S}

ParseDocs ==
    {PyNone, EmptyObject, NoStatement, NullList, NoTransactionKey, NullTransaction}
    \cup {Statement(q) : q \in SeqsUpTo(RawEntries, MaxEntries)}

\* the raw entries the fields of a record are studied on: the account number,
\* the bank code and the specification, each absent or with one of its data
NumberData ==
    {<<"null">>,
     <<"obj", JNull>>,
     <<"obj", <<"str", <<" ">>>>>>,
     <<"obj", <<"str", <<" ", "1", "2", " ">>>>>>,
     <<"obj", <<"num", <<"7">>>>>>}

SpecificationTexts ==
    {<<" ">>,
     <<"r", "e", "f", "u", "n", "d">>,
     <<"1", "0", " ", "U", "S", "D">>,
     <<" ", "-", "1", ".", "5", " ", "E", "U", "R">>,
     <<"1", ".", " ", "U", "S", "D">>,
     <<"1", "0", " ", " ", "U", "S", "D">>,
     <<"1", "0", " ", "U", "S", "D", "X">>,
     <<"1", "0", " ", "U", "S", "D", " ", "x">>}

SpecificationData ==
    {<<"obj", JNull>>} \cup {<<"obj", <<"str", s>>>> : s \in SpecificationTexts}

FieldEntries ==
    {n \o b \o sp :
        n \in {<<>>} \cup {<<<<"COLUMN2", d>>>> : d \in NumberData},
        b \in {<<>>} \cup {<<<<"column3", d>>>> : d \in NumberData},
        sp \in {<<>>} \cup {<<<<"column18", d>>>> : d \in SpecificationData}}

FieldDocs == {Statement(<<e>>) : e \in FieldEntries}

---------------------------------------------------------------------------
(* Account information: a document with accountStatement.info carries the   *)
(* items of that dict, a sequence of <<key, JSON value>>, in its info field *)

PInfo == <<"accountStatement", "info">>

\* Account.info_schema
InfoSchema ==
    [accountid |-> <<"account_number", "str">>,
     bankid |-> <<"bank_code", "str">>,
     currency |-> <<"currency", "str">>,
     iban |-> <<"iban", "str">>,
     bic |-> <<"bic", "str">>,
     closingbalance |-> <<"balance", "float">>]

WithInfo(doc, items) == [nodes |-> doc.nodes, txs |-> doc.txs, info |-> items]

NoInfo == WithInfo([nodes |-> (Root :> "dict" @@ PStatement :> "dict"),
                    txs |-> <<>>], <<>>)
NullInfo == WithInfo([nodes |-> (Root :> "dict" @@ PStatement :> "dict"
                                 @@ PInfo :> "null"),
                      txs |-> <<>>], <<>>)
InfoStatement(items) ==
    WithInfo([nodes |-> (Root :> "dict" @@ PStatement :> "dict"
                         @@ PInfo :> "dict"),
              txs |-> <<>>], items)

\* _get_account_info, lines 227-232: the items of the info dict from the
\* i-th on
RECURSIVE InfoItems(_, _, _)
InfoItems(items, i, info) ==
    IF i > Len(items) THEN [err |-> "none", info |-> info]
    ELSE LET key == Lower(items[i][1])
         IN  IF key \notin DOMAIN InfoSchema
             THEN InfoItems(items, i + 1, info)
             ELSE LET field == InfoSchema[key]
                      value == SanitizeValue(items[i][2], field[2])
                  IN  IF value.err # "none"
                      THEN [err |-> value.err, info |-> info]
                      ELSE InfoItems(items, i + 1, Put(info, field[1], value.val))

\* _get_account_info(data)
GetAccountInfo(data) ==
    LET a == GetItem(data, Root, "accountStatement")
        b == IF a.err = "none" THEN GetItem(data, a.path, "info") ELSE a
        r == InfoItems(data.info, 1, <<>>)
    IN  IF b.err # "none" THEN [err |-> b.err, info |-> <<>>]
        ELSE IF data.nodes[b.path] # "dict"
        THEN [err |-> "AttributeError", info |-> <<>>]
        ELSE IF r.err # "none" THEN [err |-> r.err, info |-> <<>>]
        ELSE [err |-> "none", info |-> AddAccountNumberFull(r.info)]

\* the info dicts of the model: the account id, the bank id, the balance and
\* a key the schema does not have, each absent or with one of its values
BalanceValues == {<<"str", <<" ", "1", ".", "5">>>>, <<"str", <<"a", "b", "c">>>>}

InfoDicts ==
    {n \o b \o c \o y :
        n \in {<<>>} \cup {<<<<"accountId", d[2]>>>> : d \in NumberData \ {<<"null">>}},
        b \in {<<>>} \cup {<<<<"bankId", d[2]>>>> : d \in NumberData \ {<<"null">>}},
        c \in {<<>>} \cup {<<<<"closingBalance", v>>>> : v \in BalanceValues},
        y \in {<<>>, <<<<"yearList", <<"str", <<"x">>>>>>>>}}

InfoDocs ==
    {WithInfo(PyNone, <<>>), WithInfo(EmptyObject, <<>>), NoInfo, NullInfo}
    \cup {InfoStatement(items) : items \in InfoDicts}

\* _get_account_info has returned its dict or raised
InfoResult(r) ==
    /\ i_pc' = IF r.err = "none" THEN "returned" ELSE "raised"
    /\ i_out' = r.info
    /\ i_err' = r.err

\* account._get_account_info(data), called and returned
InfoCall(data) ==
    /\ i_pc = "off"
    /\ i_data' = data
    /\ InfoResult(GetAccountInfo(data))
    /\ UNCHANGED <<p_data, p_pc, p_next, p_out, p_err>>
    /\ UNCHANGED <<now, token, cache, inst_ts, pc, frame, stored, fetched, last_ok, ncalls>>

---------------------------------------------------------------------------
(* The transaction generator *)

\* the records of the entries from the i-th on, after out, up to the first
\* entry that raises
RECURSIVE ParseFrom(_, _, _)
ParseAfter(entries, i, out, r) ==
    IF r.err # "none" THEN [err |-> r.err, recs |-> out]
    ELSE ParseFrom(entries, i + 1, Append(out, r.rec))

ParseFrom(entries, i, out) ==
    IF i > Len(entries) THEN [err |-> "none", recs |-> out]
    ELSE ParseAfter(entries, i, out, ParseEntry(entries[i]))

\* list(account._parse_transactions(data)): the generator run to its end
ListTransactions(data) ==
    LET found == LookupEntries(data)
    IN  IF found.err \notin {"none", "TypeError"}
        THEN [err |-> found.err, recs |-> <<>>]
        ELSE IF found.err = "none" /\ data.nodes[found.path] # "list"
        THEN [err |-> "TypeError", recs |-> <<>>]
        ELSE ParseFrom(IF found.err = "none" THEN data.txs ELSE <<>>, 1, <<>>)

\* a latest() that returns the first transaction
LatestOfFirst(recs) == IF recs = <<>> THEN <<>> ELSE <<recs[1]>>

\* Query.latest, lines 108-111: list(transactions)[-1], None (written <<>>)
\* on IndexError; a record rec is written <<rec>>
LatestOf(recs) == IF recs = <<>> THEN <<>> ELSE <<recs[Len(recs)]>>

\* transactions = account._parse_transactions(data): a generator, nothing of
\* the function has run
ParseCall(data) ==
    /\ p_pc = "off"
    /\ p_data' = data
    /\ p_pc' = "created"
    /\ UNCHANGED <<p_next, p_out, p_err, infoVars>>
    /\ UNCHANGED <<now, token, cache, inst_ts, pc, frame, stored, fetched, last_ok, ncalls>>

\* the generator after the body of its loop: it yields the record or the
\* exception leaves it
YieldOrRaise(r) ==
    IF r.err # "none"
    THEN /\ p_pc' = "raised"
         /\ p_err' = r.err
         /\ UNCHANGED <<p_next, p_out>>
    ELSE /\ p_pc' = "iter"
         /\ p_out' = Append(p_out, r.rec)
         /\ p_next' = p_next + 1
         /\ UNCHANGED p_err

\* next(transactions): the generator runs to its next yield, to its end or to
\* an exception.  The first next runs lines 241-247 first.
ParseNext ==
    /\ p_pc \in {"created", "iter"}
    /\ LET found == LookupEntries(p_data)
       IN  IF p_pc = "created" /\ found.err \notin {"none", "TypeError"}
           THEN \* only TypeError is caught
                /\ p_pc' = "raised"
                /\ p_err' = found.err
                /\ UNCHANGED <<p_next, p_out>>
           ELSE IF found.err = "none" /\ p_data.nodes[found.path] # "list"
           THEN \* for entry in None
                /\ p_pc' = "raised"
                /\ p_err' = "TypeError"
                /\ UNCHANGED <<p_next, p_out>>
           ELSE LET entries == IF found.err = "none" THEN p_data.txs ELSE <<>>
                IN  IF p_next > Len(entries)
                    THEN /\ p_pc' = "exhausted"
                         /\ UNCHANGED <<p_next, p_out, p_err>>
                    ELSE YieldOrRaise(ParseEntry(entries[p_next]))
    /\ UNCHANGED <<p_data, infoVars>>
    /\ UNCHANGED <<now, token, cache, inst_ts, pc, frame, stored, fetched, last_ok, ncalls>>

---------------------------------------------------------------------------
(* Calls *)

IdleFrame ==
    [op |-> "none", acct |-> "none", from_id |-> "None", from_date |-> NoDate,
     action |-> "none", url |-> <<>>, issued |-> <<>>, nets |-> 0,
     status |-> 0, body |-> "",
     result |-> PyNone, error |-> "none", served |-> "none", latest |-> <<>>]

\* the frame on entry to self._request(action, ...)
EnterRequest(f, action, p1, p2) ==
    [f EXCEPT !.action = action,
              !.url = Url(token[f.acct], action, p1, p2),
              !.issued = Append(f.issued, action),
              !.nets = 0, !.status = 0, !.body = ""]

\* an exception leaves the call: nothing in it is caught
Raise(t, f, exc) ==
    /\ pc' = [pc EXCEPT ![t] = "done"]
    /\ frame' = [frame EXCEPT ![t] = [f EXCEPT !.error = exc]]

\* account._request(action, ...) called directly
StartRequest(t, a, r) ==
    /\ pc[t] = "idle"
    /\ ncalls' = ncalls + 1
    /\ pc' = [pc EXCEPT ![t] = "check"]
    /\ frame' = [frame EXCEPT ![t] =
            EnterRequest([IdleFrame EXCEPT !.op = "_request", !.acct = a],
                         r[1], r[2], r[3])]
    /\ UNCHANGED <<now, token, cache, inst_ts, stored, fetched, last_ok, parseVars>>

CallRequest(t, a, r) == ncalls < MaxCalls /\ StartRequest(t, a, r)

\* account.last(from_id, from_date), up to its first _request
CallLast(t, a, from_id, from_date) ==
    /\ pc[t] = "idle"
    /\ ncalls < MaxCalls
    /\ ncalls' = ncalls + 1
    /\ LET f == [IdleFrame EXCEPT !.op = "last", !.acct = a,
                                  !.from_id = from_id, !.from_date = from_date]
       IN  IF TruthyId(from_id) /\ TruthyDate(from_date)
           THEN Raise(t, f, "ValueError")
           ELSE IF TruthyId(from_id)
           THEN /\ pc' = [pc EXCEPT ![t] = "check"]
                /\ frame' = [frame EXCEPT ![t] =
                        EnterRequest(f, "set-last-id", from_id, "")]
           ELSE IF TruthyDate(from_date)
           THEN IF CoerceDate(from_date).err # "none"
                THEN Raise(t, f, CoerceDate(from_date).err)
                ELSE /\ pc' = [pc EXCEPT ![t] = "check"]
                     /\ frame' = [frame EXCEPT ![t] =
                             EnterRequest(f, "set-last-date",
                                          CoerceDate(from_date).date, "")]
           ELSE /\ pc' = [pc EXCEPT ![t] = "check"]
                /\ frame' = [frame EXCEPT ![t] = EnterRequest(f, "last", "", "")]
    /\ UNCHANGED <<now, token, cache, inst_ts, stored, fetched, last_ok, parseVars>>

\* account.transactions.latest(), up to its first _request
CallLatest(t, a) ==
    /\ pc[t] = "idle"
    /\ ncalls < MaxCalls
    /\ ncalls' = ncalls + 1
    /\ LET f == [IdleFrame EXCEPT !.op = "latest", !.acct = a]
           from_date == CoerceDate(ThirtyDaysBefore(Today))
       IN  /\ pc' = [pc EXCEPT ![t] = "check"]
           /\ frame' = [frame EXCEPT ![t] =
                   EnterRequest(f, "set-last-date", from_date.date, "")]
    /\ UNCHANGED <<now, token, cache, inst_ts, stored, fetched, last_ok, parseVars>>

\* Query.latest, lines 105-111: the frame of latest() once the generator has
\* run: the parser's exception leaves latest(), or the last record is returned
LatestFrame(f, transactions) ==
    IF transactions.err # "none"
    THEN [f EXCEPT !.error = transactions.err]
    ELSE [f EXCEPT !.latest = LatestOf(transactions.recs)]

\* _request returns value to its caller: last() and latest() go on to their
\* fetch after the checkpoint request; latest() runs the parser over the
\* fetched document and keeps the last record; every other caller returns
\* (last() with a generator over value that has not run)
Return(t, f, value, how) ==
    IF f.op \in {"last", "latest"} /\ f.action # "last"
    THEN /\ pc' = [pc EXCEPT ![t] = "check"]
         /\ frame' = [frame EXCEPT ![t] = EnterRequest(f, "last", "", "")]
    ELSE IF f.op = "latest"
    THEN /\ pc' = [pc EXCEPT ![t] = "done"]
         /\ frame' = [frame EXCEPT ![t] =
                 LatestFrame([f EXCEPT !.result = value, !.served = how],
                             ListTransactions(value))]
    ELSE /\ pc' = [pc EXCEPT ![t] = "done"]
         /\ frame' = [frame EXCEPT ![t] =
                 [f EXCEPT !.result = value, !.served = how]]

\* a _request that holds a lock from its cache check to its response
CheckLocked(t) ==
    /\ pc[t] = "check"
    /\ \A o \in Threads \ {t} : pc[o] # "net"
    /\ LET f == frame[t]
           cached_response_json == GetCachedResponseJson(f.acct, f.url)
       IN  IF Truthy(cached_response_json)
           THEN Return(t, f, cached_response_json, "cache")
           ELSE /\ pc' = [pc EXCEPT ![t] = "net"]
                /\ frame' = [frame EXCEPT ![t] = [f EXCEPT !.nets = f.nets + 1]]
    /\ UNCHANGED <<now, token, cache, inst_ts, stored, fetched, last_ok, ncalls, parseVars>>

\* _request, lines 181-187: the URL is built, the cache is asked, and either
\* the cached document is returned or requests.get is called
Check(t) ==
    /\ pc[t] = "check"
    /\ LET f == frame[t]
           cached_response_json == GetCachedResponseJson(f.acct, f.url)
       IN  IF Truthy(cached_response_json)
           THEN Return(t, f, cached_response_json, "cache")
           ELSE /\ pc' = [pc EXCEPT ![t] = "net"]
                /\ frame' = [frame EXCEPT ![t] = [f EXCEPT !.nets = f.nets + 1]]
    /\ UNCHANGED <<now, token, cache, inst_ts, stored, fetched, last_ok, ncalls, parseVars>>

\* the exception of a response's status, "none" for a status that raises none
StatusError(status) ==
    IF status = Conflict THEN "ThrottlingError"
    ELSE IF status >= 400 THEN "HTTPError"
    ELSE "none"

\* a _request that sends its request again when the response raises
FailRetry(t, f, exc) ==
    /\ pc' = [pc EXCEPT ![t] = "net"]
    /\ frame' = [frame EXCEPT ![t] = [f EXCEPT !.nets = f.nets + 1]]

\* a response that raises: the exception goes to the caller of _request and
\* through last() to its caller
Fail(t, f, exc) == Raise(t, f, exc)

\* a _request that stores whatever body it is sent, the conflict's included
StoresAnyStatus(status, body) == body # ""

\* whether _request stores the response: it raised nothing and has a body
Stores(status, body) == StatusError(status) = "none" /\ body # ""

\* a _request whose store drops the entries of the other URLs
CacheAfterEvicting(f, status, body) ==
    IF Stores(status, body) THEN (f.url :> Json(body)) ELSE cache

\* self.cache after the response
CacheAfter(f, status, body) ==
    IF Stores(status, body) THEN (f.url :> Json(body)) @@ cache ELSE cache

\* a _request that stamps every response that raised nothing, bodiless or not
TimestampsAfterAnyBody(f, status, body) ==
    IF StatusError(status) = "none" THEN (f.acct :> now) @@ inst_ts ELSE inst_ts

\* the instances' last_request_timestamp attributes after the response
TimestampsAfter(f, status, body) ==
    IF Stores(status, body) THEN (f.acct :> now) @@ inst_ts ELSE inst_ts

\* _request, lines 189-198: the response has arrived
Respond(t, status, body) ==
    /\ pc[t] = "net"
    /\ LET f == [frame[t] EXCEPT !.status = status, !.body = body]
       IN  /\ cache' = CacheAfter(f, status, body)
           /\ inst_ts' = TimestampsAfter(f, status, body)
           /\ stored' = IF Stores(status, body)
                        THEN (f.url :> now) @@ stored ELSE stored
           /\ fetched' = IF Stores(status, body)
                          THEN (f.url :> [tok |-> token[f.acct], body |-> body])
                               @@ fetched
                          ELSE fetched
           /\ last_ok' = IF Stores(status, body)
                         THEN [acct |-> f.acct, url |-> f.url] ELSE last_ok
           /\ IF StatusError(status) # "none"
              THEN Fail(t, f, StatusError(status))
              ELSE IF body # ""
              THEN Return(t, f, Json(body), "network")
              ELSE Return(t, f, PyNone, "network")
    /\ UNCHANGED <<now, token, ncalls, parseVars>>

\* the caller has its result or its exception
Finish(t) ==
    /\ pc[t] = "done"
    /\ pc' = [pc EXCEPT ![t] = "idle"]
    /\ frame' = [frame EXCEPT ![t] = IdleFrame]
    /\ UNCHANGED <<now, token, cache, inst_ts, stored, fetched, last_ok, ncalls, parseVars>>

\* time passes, between calls and while a thread waits for the network (the
\* statements of a call take no time)
Tick(d) ==
    /\ \A t \in Threads : pc[t] \in {"idle", "net"}
    /\ now + d <= StartTime + MaxElapsed
    /\ now' = now + d
    /\ UNCHANGED <<token, cache, inst_ts, pc, frame, stored, fetched, last_ok, ncalls, parseVars>>

---------------------------------------------------------------------------
(* Specifications *)

ParseIdle ==
    /\ p_data = PyNone
    /\ p_pc = "off"
    /\ p_next = 1
    /\ p_out = <<>>
    /\ p_err = "none"
    /\ i_data = [nodes |-> PyNone.nodes, txs |-> <<>>, info |-> <<>>]
    /\ i_pc = "off"
    /\ i_out = <<>>
    /\ i_err = "none"

Init ==
    /\ now = StartTime
    /\ token \in {tk \in [Accounts -> Tokens] : tk["a1"] = "tokA"}
    /\ cache = <<>>
    /\ inst_ts = <<>>
    /\ pc = [t \in Threads |-> "idle"]
    /\ frame = [t \in Threads |-> IdleFrame]
    /\ stored = <<>>
    /\ fetched = <<>>
    /\ last_ok = [acct |-> "none", url |-> <<>>]
    /\ ncalls = 0
    /\ ParseIdle

RequestSteps(t) ==
    \/ Check(t)
    \/ \E s \in Statuses, b \in Bodies : Respond(t, s, b)
    \/ Finish(t)

\* one caller at a time, calling _request: the synchronous, single-threaded use
Next ==
    \/ \E a \in Accounts, r \in DirectRequests : CallRequest(1, a, r)
    \/ RequestSteps(1)
    \/ \E d \in TickSteps : Tick(d)

Spec == Init /\ [][Next]_vars

\* one caller at a time, calling last()
NextLast ==
    \/ \E a \in FacadeAccounts, i \in IdArgs, d \in DateArgs : CallLast(1, a, i, d)
    \/ RequestSteps(1)
    \/ \E d \in TickSteps : Tick(d)

SpecLast == Init /\ [][NextLast]_vars

\* one caller at a time, calling transactions.latest()
NextLatest ==
    \/ \E a \in FacadeAccounts : CallLatest(1, a)
    \/ RequestSteps(1)
    \/ \E d \in TickSteps : Tick(d)

SpecLatest == Init /\ [][NextLatest]_vars

\* one caller at a time and two instances, for three calls of _request
NextInstances ==
    \/ \E a \in Accounts, r \in SharedRequests :
            ncalls < MaxSharedCalls /\ StartRequest(1, a, r)
    \/ RequestSteps(1)
    \/ \E d \in TickSteps : Tick(d)

SpecInstances == Init /\ [][NextInstances]_vars

\* two threads calling _request on the same instance, with no lock
NextThreads ==
    \/ \E t \in Threads, a \in FacadeAccounts, r \in DirectRequests :
            CallRequest(t, a, r)
    \/ \E t \in Threads : RequestSteps(t)
    \/ \E d \in TickSteps : Tick(d)

SpecThreads == Init /\ [][NextThreads]_vars

\* the transaction parser alone, on every document of the model
InitParse == Init /\ token = [a \in Accounts |-> "tokA"]

NextParse ==
    \/ \E data \in ParseDocs : ParseCall(data)
    \/ ParseNext

SpecParse == InitParse /\ [][NextParse]_vars

\* the two parsers, on the documents their records' fields are studied on
NextRecords ==
    \/ \E data \in FieldDocs : ParseCall(data)
    \/ ParseNext
    \/ \E data \in InfoDocs : InfoCall(data)

SpecRecords == InitParse /\ [][NextRecords]_vars

---------------------------------------------------------------------------
(* The claims *)

\* thread t runs its cache check in this step
CheckStep(t) == pc[t] = "check" /\ <<pc[t], frame[t]>>' # <<pc[t], frame[t]>>

\* thread t's response arrives in this step
RespondStep(t) == pc[t] = "net" /\ <<pc[t], frame[t]>>' # <<pc[t], frame[t]>>

\* C1: after a _request of an account for a URL was answered over the network
\* with a body, the next _request of that account for that URL less than 30
\* seconds later returns the same document without a network call, whatever
\* the document is; and a _request made 31 or more seconds after the latest
\* stored response goes to the network.
C1_CachedWithinWindow ==
    [][\A t \in Threads : CheckStep(t) =>
        LET f == frame[t] IN
        /\ (/\ last_ok = [acct |-> f.acct, url |-> f.url]
            /\ now - stored[f.url] < 30)
           => /\ pc'[t] = "done"
              /\ frame'[t].served = "cache"
              /\ frame'[t].nets = 0
              /\ frame'[t].result = cache[f.url]
        /\ (/\ last_ok.acct # "none"
            /\ now - stored[last_ok.url] >= 31)
           => /\ pc'[t] = "net"
              /\ frame'[t].nets = 1]_vars

\* C2: a conflict response fails the call with ThrottlingError and leaves
\* every cache entry and the last-request timestamp as they were.
C2_ConflictLeavesCache ==
    [][\A t \in Threads : (RespondStep(t) /\ frame'[t].status = Conflict) =>
        /\ pc'[t] = "done"
        /\ frame'[t].error = "ThrottlingError"
        /\ cache' = cache
        /\ inst_ts' = inst_ts]_vars

\* C2's case: a call was throttled while the cache held an earlier response
C2_Witness ==
    \E t \in Threads :
        /\ pc[t] = "done"
        /\ frame[t].status = Conflict
        /\ frame[t].error = "ThrottlingError"
        /\ frame[t].body # ""
        /\ cache # <<>>

\* C3: the timestamp is shared by all instances: a stored response sets the
\* timestamp every instance sees, so an instance that asks for a URL another
\* instance stored less than 30 seconds ago is served from the cache.
C3_SharedTimestamp ==
    [][\A t \in Threads :
        /\ (RespondStep(t) /\ frame'[t].status = 200 /\ frame'[t].body # "")
           => \A b \in Accounts :
                (IF b \in DOMAIN inst_ts' THEN inst_ts'[b]
                 ELSE ClassLastRequestTimestamp) = now
        /\ CheckStep(t) =>
            LET f == frame[t] IN
            (/\ last_ok.acct \notin {"none", f.acct}
             /\ last_ok.url = f.url
             /\ now - stored[f.url] < 30
             /\ Truthy(cache[f.url]))
            => /\ pc'[t] = "done"
               /\ frame'[t].served = "cache"
               /\ frame'[t].result = cache[f.url]]_vars

\* C4: last() with both from_id and from_date supplied, whatever their values,
\* raises ValueError before any request is made.
C4_BothRaises ==
    \A t \in Threads :
        (/\ frame[t].op = "last"
         /\ frame[t].from_id # "None"
         /\ frame[t].from_date # NoDate)
        => /\ pc[t] = "done"
           /\ frame[t].error = "ValueError"
           /\ frame[t].issued = <<>>

\* C5: last() issues its checkpoint request before its fetch: set-last-id
\* then last when from_id is given, set-last-date then last when from_date
\* (a date) is given, last alone when neither is; and no last after a
\* checkpoint request that raised.
C5_CheckpointFirst ==
    \A t \in Threads :
        LET f == frame[t]
            idGiven == f.from_id # "None"
            dateGiven == f.from_date # NoDate
        IN  f.op = "last" =>
            /\ (idGiven /\ ~dateGiven)
               => f.issued \in {<<"set-last-id">>, <<"set-last-id", "last">>}
            /\ (dateGiven /\ ~idGiven /\ CoerceDate(f.from_date).err = "none")
               => f.issued \in {<<"set-last-date">>, <<"set-last-date", "last">>}
            /\ (~idGiven /\ ~dateGiven) => f.issued = <<"last">>
            /\ (f.error # "none" /\ f.action # "last")
               => \A i \in 1..Len(f.issued) : f.issued[i] # "last"

\* C8: a response with an empty body that raised nothing returns None and
\* leaves the cache and the last-request timestamp as they were.
C8_EmptyBodyLeavesCache ==
    [][\A t \in Threads :
        (RespondStep(t) /\ frame'[t].status \in {200} /\ frame'[t].body = "") =>
        /\ pc'[t] = "done"
        /\ frame'[t].result = PyNone
        /\ frame'[t].error = "none"
        /\ cache' = cache
        /\ inst_ts' = inst_ts]_vars

\* C8's case: an empty body arrived for a URL the cache holds a stale entry of
C8_Witness ==
    \E t \in Threads :
        /\ pc[t] = "done"
        /\ frame[t].status = 200
        /\ frame[t].body = ""
        /\ frame[t].served = "network"
        /\ frame[t].url \in DOMAIN cache

\* C9: a _request makes at most one network call, and a response that raises
\* ends the whole operation with its exception: nothing is sent again.
C9_NoRetry ==
    \A t \in Threads :
        /\ frame[t].nets <= 1
        /\ frame[t].status >= 400
           => /\ pc[t] = "done"
              /\ frame[t].error = StatusError(frame[t].status)
              /\ frame[t].action = frame[t].issued[Len(frame[t].issued)]
        /\ frame[t].error # "none" => pc[t] = "done"

\* C9's case: the checkpoint request of last() was throttled, and last()
\* ended there
C9_Witness ==
    \E t \in Threads :
        /\ pc[t] = "done"
        /\ frame[t].op = "last"
        /\ frame[t].error = "ThrottlingError"
        /\ frame[t].issued = <<"set-last-date">>
        /\ frame[t].nets = 1

\* C10: nothing keeps a thread from the network while another thread's call
\* for the same URL is in flight: when its cache check finds nothing to
\* return, it can send its own request.
C10_SecondThreadProceeds ==
    \A t \in Threads, o \in Threads :
        (/\ t # o
         /\ pc[o] = "net"
         /\ pc[t] = "check"
         /\ frame[t].url = frame[o].url
         /\ ~Truthy(GetCachedResponseJson(frame[t].acct, frame[t].url)))
        => ENABLED (Check(t) /\ pc'[t] = "net")

\* C10's case: both threads have a network call in flight for the same URL
C10_Witness ==
    /\ pc[1] = "net"
    /\ pc[2] = "net"
    /\ frame[1].url = frame[2].url
    /\ frame[1].nets = 1
    /\ frame[2].nets = 1

\* the raw entry has a column the schema does not know
HasUnknownColumn(entry) ==
    \E i \in 1..Len(entry) : Lower(entry[i][1]) \notin DOMAIN TransactionSchema

\* C6: a transaction entry with a column code the schema does not know, with
\* any value, null or not, is parsed without an exception, to a record of
\* exactly the schema's fields and the derived fields.
C6_UnknownIgnored ==
    \A i \in 1..Len(p_data.txs) :
        (/\ HasUnknownColumn(p_data.txs[i])
         /\ (i < p_next \/ (i = p_next /\ p_pc = "raised")))
        => /\ i < p_next
           /\ i <= Len(p_out)
           /\ DOMAIN p_out[i] = SchemaFields \cup DerivedFields

\* C7: a document with no transaction key in its transactionList, with a null
\* transactionList, or that is None, parses to the empty sequence and never
\* raises.
C7_EmptyNotError ==
    (/\ p_data \in {NoTransactionKey, NullList, PyNone}
     /\ p_pc \notin {"off", "created"})
    => /\ p_pc = "exhausted"
       /\ p_err = "none"
       /\ p_out = <<>>

---------------------------------------------------------------------------
(* The records *)

\* the account_number_full of a record is None exactly when its account
\* number or its bank code is None or is not there, and is their texts joined
\* with a slash otherwise
FullNumberRight(rec) ==
    LET number == IF "account_number" \in DOMAIN rec
                  THEN rec["account_number"] ELSE PNone
        code == IF "bank_code" \in DOMAIN rec THEN rec["bank_code"] ELSE PNone
    IN  /\ "account_number_full" \in DOMAIN rec
        /\ rec["account_number_full"] # PNone
           <=> (number # PNone /\ code # PNone)
        /\ rec["account_number_full"] # PNone
           => rec["account_number_full"] = <<"str", number[2] \o <<"/">> \o code[2]>>

\* C11: in every record _parse_transactions yields and every dict
\* _get_account_info returns, account_number_full is non-null exactly when
\* account_number and bank_code both are, and then is account_number, "/",
\* bank_code; absent, null and whitespace-only source fields included.
C11_FullNumber ==
    /\ \A i \in 1..Len(p_out) : FullNumberRight(p_out[i])
    /\ i_pc = "returned" => FullNumberRight(i_out)

\* C11's case: a transaction record with both source fields and an info dict
\* with a whitespace-only account id
C11_Witness ==
    /\ Len(p_out) = 1
    /\ p_out[1]["account_number_full"] = <<"str", <<"1", "2", "/", "7">>>>
    /\ i_pc = "returned"
    /\ \E k \in 1..Len(i_data.info) :
            i_data.info[k] = <<"accountId", <<"str", <<" ">>>>>>
    /\ "bank_code" \in DOMAIN i_out
    /\ i_out["bank_code"] # PNone
    /\ i_out["account_number_full"] = PNone

\* the data of the column of the raw entry, <<>> when the entry has no such
\* column
ColumnData(entry, column) ==
    IF \E k \in 1..Len(entry) : Lower(entry[k][1]) = column
    THEN entry[CHOOSE k \in 1..Len(entry) : Lower(entry[k][1]) = column][2]
    ELSE <<>>

\* the column is absent, null, null-valued or whitespace-only
Blank(data) ==
    \/ data = <<>>
    \/ data[1] = "null"
    \/ data[2][1] = "null"
    \/ (data[2][1] = "str" /\ Strip(data[2][2]) = <<>>)

\* C12: every record yielded for a transaction entry has every field of the
\* schema, None where the entry's column is absent, null-valued or
\* whitespace-only, and the three derived fields.
C12_AllFields ==
    \A i \in 1..Len(p_out) :
        /\ DOMAIN p_out[i] = SchemaFields \cup DerivedFields
        /\ \A c \in DOMAIN TransactionSchema :
              Blank(ColumnData(p_data.txs[i], c))
              => p_out[i][TransactionSchema[c][1]] = PNone

\* C12's case: a record of an entry with a whitespace-only account number, no
\* bank code and a specification
C12_Witness ==
    /\ Len(p_out) = 1
    /\ ColumnData(p_data.txs[1], "column2") = <<"obj", <<"str", <<" ">>>>>>
    /\ ColumnData(p_data.txs[1], "column3") = <<>>
    /\ p_out[1]["specification"] # PNone
    /\ p_out[1]["account_number"] = PNone

\* the whole text is an optional minus, digits, an optional fraction, one
\* space and three capitals
WholeAmount(s) ==
    LET b == IF Len(s) > 0 /\ s[1] = "-" THEN 2 ELSE 1
        e == DigitsEnd(s, b)
        f == IF e + 1 < Len(s) /\ s[e + 1] = "." /\ DigitsEnd(s, e + 2) >= e + 2
             THEN DigitsEnd(s, e + 2) ELSE e
    IN  /\ e >= b
        /\ f + 4 = Len(s)
        /\ s[f + 1] = " "
        /\ \A k \in (f + 2)..(f + 4) : IsUpper(s[k])

\* C13: for every transaction entry, whatever its specification, parsing does
\* not fail, and original_amount and original_currency are both non-null
\* exactly when the whole specification is a number, a space and a
\* three-letter code, and then are the two pieces of the specification; both
\* are null otherwise.
C13_AmountSplit ==
    (p_data \in FieldDocs /\ p_pc \notin {"off", "created"}) =>
        /\ p_err = "none"
        /\ \A i \in 1..Len(p_out) :
            LET rec == p_out[i]
                sp == rec["specification"]
                whole == sp # PNone /\ WholeAmount(sp[2])
            IN  /\ whole => /\ rec["original_amount"][1] = "float"
                            /\ rec["original_currency"][1] = "str"
                            /\ rec["original_amount"][2] \o <<" ">>
                                 \o rec["original_currency"][2] = sp[2]
                /\ ~whole => /\ rec["original_amount"] = PNone
                             /\ rec["original_currency"] = PNone

---------------------------------------------------------------------------
(* Query.latest *)

\* C14: latest() issues a set-last-date request for the date 30 days ago,
\* then a last request, and returns the last record, in input order, of the
\* document the last request returned, or None when there is no record, the
\* last request having returned None included.
C14_LatestIsLast ==
    \A t \in Threads :
        LET f == frame[t]
            recs == ListTransactions(f.result).recs
        IN  f.op = "latest" =>
            /\ f.issued \in {<<"set-last-date">>, <<"set-last-date", "last">>}
            /\ f.action = "set-last-date"
               => f.url = <<"set-last-date", token[f.acct], "2020-01-01", "">>
            /\ (pc[t] = "done" /\ f.error = "none") =>
                /\ f.issued = <<"set-last-date", "last">>
                /\ Len(recs) = Len(f.result.txs)
                /\ \A i \in 1..Len(recs) : recs[i] = ParseEntry(f.result.txs[i]).rec
                /\ Len(recs) = 0 => f.latest = <<>>
                /\ Len(recs) > 0 => f.latest = <<recs[Len(recs)]>>
                /\ f.result = PyNone => f.latest = <<>>

\* C14's case: latest() has returned the second of two transactions
C14_Witness ==
    \E t \in Threads :
        /\ pc[t] = "done"
        /\ frame[t].op = "latest"
        /\ frame[t].error = "none"
        /\ frame[t].result = Statement(<<KnownEntry, LaterEntry>>)
        /\ frame[t].latest = <<ParseEntry(LaterEntry).rec>>
        /\ frame[t].latest # <<ParseEntry(KnownEntry).rec>>

---------------------------------------------------------------------------
(* The staleness check *)

\* C15: the staleness check is global, not per URL: a cache check made less
\* than 30 seconds after the instance's latest stored response returns the
\* entry of its URL, however long ago that entry was stored; so an entry of
\* URL A stored more than 30 seconds ago is returned without a network call
\* after a recent request of URL B.
C15_GlobalStaleness ==
    [][\A t \in Threads : CheckStep(t) =>
        LET f == frame[t] IN
        (/\ f.acct \in DOMAIN inst_ts
         /\ now - inst_ts[f.acct] < 30
         /\ f.url \in DOMAIN cache
         /\ Truthy(cache[f.url]))
        => /\ pc'[t] # "net"
           /\ f.action = "last"
              => /\ frame'[t].served = "cache"
                 /\ frame'[t].result = cache[f.url]]_vars

\* C15's case: a call was served the entry of its URL, stored more than 30
\* seconds ago, when a different URL's response was stored less than 30
\* seconds ago
C15_Witness ==
    \E t \in Threads :
        /\ pc[t] = "done"
        /\ frame[t].served = "cache"
        /\ frame[t].nets = 0
        /\ now - stored[frame[t].url] > 30
        /\ last_ok.url # frame[t].url
        /\ now - stored[last_ok.url] < 30

\* C16: a cache check made 30 seconds or more after the instance's own latest
\* stored response goes to the network, however recently the entry of its URL
\* was stored; so an entry of URL A stored less than 30 seconds ago is ignored
\* once 30 seconds have passed since a different request.
C16_FreshIgnored ==
    [][\A t \in Threads : CheckStep(t) =>
        LET f == frame[t] IN
        (/\ f.acct \in DOMAIN inst_ts
         /\ now - inst_ts[f.acct] >= 30)
        => /\ pc'[t] = "net"
           /\ frame'[t].nets = 1]_vars

\* C16's case: a network call is in flight for a URL whose truthy entry was
\* stored less than 30 seconds ago, made by an instance whose own latest
\* stored response, of a different URL, is 30 seconds old or more
C16_Witness ==
    \E t \in Threads :
        LET f == frame[t] IN
        /\ pc[t] = "net"
        /\ f.nets = 1
        /\ f.url \in DOMAIN cache
        /\ Truthy(cache[f.url])
        /\ now - stored[f.url] < 30
        /\ f.acct \in DOMAIN inst_ts
        /\ now - inst_ts[f.acct] >= 30
        /\ \E u \in DOMAIN stored : u # f.url /\ stored[u] = inst_ts[f.acct]

---------------------------------------------------------------------------
(* The cache *)

\* C17: a response that raises nothing and has a body is stored, decoded,
\* under the URL of its request, and sets the instance's last-request
\* timestamp to the current time; a network call is made only after a cache
\* check that returned nothing; and no step removes a cache entry: an entry
\* changes only when the response of a request for its URL arrives.
C17_CacheLifecycle ==
    [][\A t \in Threads :
        LET f == frame[t] IN
        /\ (RespondStep(t) /\ frame'[t].status < 400 /\ frame'[t].body # "")
           => /\ f.url \in DOMAIN cache'
              /\ cache'[f.url] = Json(frame'[t].body)
              /\ f.acct \in DOMAIN inst_ts'
              /\ inst_ts'[f.acct] = now
        /\ (pc'[t] = "net" /\ pc[t] # "net")
           => /\ pc[t] = "check"
              /\ ~Truthy(GetCachedResponseJson(f.acct, f.url))
        /\ DOMAIN cache \subseteq DOMAIN cache'
        /\ \A u \in DOMAIN cache :
              cache'[u] # cache[u]
              => \E o \in Threads : RespondStep(o) /\ frame[o].url = u]_vars

\* C17's case: a response was stored while the cache held another URL's entry
C17_Witness ==
    \E t \in Threads :
        /\ pc[t] = "done"
        /\ frame[t].served = "network"
        /\ frame[t].body # ""
        /\ frame[t].url \in DOMAIN cache
        /\ stored[frame[t].url] = now
        /\ \E u \in DOMAIN cache : u # frame[t].url /\ stored[u] < now

\* C19: a document _request returns from the cache was stored by a network
\* call for that same URL, made with the token of the instance that is
\* served: no instance receives a document fetched with another token.
C19_TokenIsolation ==
    /\ \A u \in DOMAIN cache :
          /\ u \in DOMAIN fetched
          /\ cache[u] = Json(fetched[u].body)
    /\ \A t \in Threads :
          LET f == frame[t] IN
          f.served = "cache"
          => /\ f.url \in DOMAIN fetched
             /\ f.result = Json(fetched[f.url].body)
             /\ fetched[f.url].tok = token[f.acct]

\* C19's case: an instance was served from the cache while the cache holds
\* the response to the same action fetched with the other token
C19_Witness ==
    \E t \in Threads :
        LET f == frame[t] IN
        /\ pc[t] = "done"
        /\ f.served = "cache"
        /\ \E u \in DOMAIN cache :
              /\ u[1] = f.url[1]
              /\ u[3] = f.url[3]
              /\ u[2] # f.url[2]
              /\ cache[u] # f.result

\* C18: when last() with a from_id or a from_date returns without error,
\* the document it hands to the parser came from a network call made after
\* the checkpoint request of that call, never from a response fetched before
\* the checkpoint was moved.
C18_FetchAfterCheckpoint ==
    \A t \in Threads :
        LET f == frame[t] IN
        (/\ f.op = "last"
         /\ pc[t] = "done"
         /\ f.error = "none"
         /\ f.issued \in {<<"set-last-id", "last">>, <<"set-last-date", "last">>})
        => /\ f.served = "network"
           /\ f.nets = 1

====
